---- MODULE Spec2Model ----
(***************************************************************************)
(* Order placement and stock adjustment of the Candyapp backend.           *)
(*                                                                         *)
(* The repository holds four generations of the same HTTP API, each with   *)
(* its own PlaceOrder / AdjustStock / product-creation handlers:           *)
(*   "api"   src/api-server/server.js   POST /orders, PATCH /products/:id  *)
(*   "seed"  src/seed.js                POST /api/orders, ...              *)
(*   "index" src/index.js               POST /api/orders, ...              *)
(*   "p1"    src/unnamed/part_001       POST /api/orders, ...              *)
(* One server runs at a time; `variant` says which (chosen in Init).       *)
(*                                                                         *)
(* The relational store is modelled as committed tables plus, for each     *)
(* open transaction, the rows it has written but not yet committed and the *)
(* row locks it holds (READ COMMITTED with SELECT ... FOR UPDATE).         *)
(* A cart entry is the pair (product id, quantity) each variant reads      *)
(* from the request, whatever the field names it reads them from.          *)
(***************************************************************************)
EXTENDS Integers, Sequences, FiniteSets, TLC

(* ------------------------------ bounds -------------------------------- *)
\* requests issued in one run (concurrently or one after the other)
MaxRequests == 2
\* injected store failures (a COMMIT or a query that throws) in one run
MaxFaults == 1

Variants == {"api", "seed", "index", "p1"}
\* two request slots: at most two handlers are in flight at once
Slots == {1, 2}
\* product ids; 1 (A) and 2 (X) exist at start, 3 does not
ProdIds == {1, 2, 3}
Qtys == {2, 3}
\* the price a cart entry carries itself (unit_price / price / price_cents);
\* 0 stands for an entry without one
CartPrices == {0}
\* a cart entry as the request gives it: product id, qty as sent, own price
Entries == [pid : ProdIds, qty : Qtys, price : CartPrices]
\* entries of the two-entry carts (quantity 2 in both entries)
PairEntries == {e \in Entries : e.qty = 2}
\* req.body.cart / req.body.items: missing (list = FALSE), or a list of 0..2 entries
NoCart == [list |-> FALSE, entries |-> <<>>]
Carts ==
  {NoCart}
    \cup {[list |-> TRUE, entries |-> <<>>]}
    \cup {[list |-> TRUE, entries |-> <<e>>] : e \in Entries}
    \cup {[list |-> TRUE, entries |-> <<e, f>>] : e \in PairEntries, f \in PairEntries}
\* The empty cart and the carts of one entry whose qty may be zero or
\* negative and which may carry a price of its own
RawQtys == {-2, 0, 2}
OwnPrices == {0, 1}
AnyEntries == [pid : ProdIds, qty : RawQtys, price : OwnPrices]
AnyCarts ==
  {[list |-> TRUE, entries |-> <<>>]}
    \cup {[list |-> TRUE, entries |-> <<e>>] : e \in AnyEntries}
\* PATCH bodies: an absolute quantity (stock_qty / stock) or a delta (stock_delta)
AbsValues == {0, 4}
Deltas == {-1, 1}
\* absolute quantities of a PATCH body that may be negative
AnyAbs == {-1, 4}
\* PATCH bodies: a new price; a new order status
NewPrices == {120}
NewStatuses == {"paid"}
\* POST /products body: the new product's id and stock
NewStocks == {3}

(* ------------------------------ state --------------------------------- *)
VARIABLES
  variant,    \* which server generation runs
  products,   \* committed products table: id -> row
  orders,     \* committed orders table: set of rows
  items,      \* committed order_items table, in insertion order
  events,     \* committed inventory_events table, in insertion order
  payments,   \* committed payments table: order ids of meta.order_id
  initStock,  \* history: the stock each product row was created with
  nextId,     \* next fresh order identifier (uuidv4() / orders.id SERIAL)
  faults,     \* store failures injected so far
  pc,         \* per slot: position of the handler
  req,        \* per slot: the request (kind, inputs, order id)
  idx,        \* per slot: index of the cart entry being processed
  stockRead,  \* per slot: stock value returned by the last SELECT ... FOR UPDATE
  perr,       \* per slot: the error on its way to the response
  resp,       \* per slot: the response sent to the caller
  held,       \* per slot: product row locks held by the slot's transaction
  tx,         \* per slot: the open transaction's uncommitted writes
  conn,       \* per slot: the pooled client the handler took and its releases
  admin       \* ADMIN_API_KEY configured or not; the admin_password setting

vars == <<variant, products, orders, items, events, payments, initStock, nextId,
          faults, pc, req, idx, stockRead, perr, resp, held, tx, conn, admin>>

dbVars == <<products, orders, items, events, payments>>

NoRow == [exists |-> FALSE, stock |-> 0, price |-> 0]
NoWrite == [w |-> FALSE, v |-> 0]
NoTx == [open |-> FALSE, stock |-> [p \in ProdIds |-> NoWrite], order |-> {},
         items |-> <<>>, events |-> <<>>, pay |-> {},
         price |-> {}]
\* A value of admin_settings under the key admin_password: none, or the text
\* of a password, stored as its bcrypt hash or as it was sent.
NoPw == [set |-> FALSE, hashed |-> FALSE, of |-> ""]

\* No admin key configured, no password stored.
NoAdmin == [keySet |-> FALSE, pw |-> NoPw]

\* An admin request: the credential, the new and the current password and
\* the settings key it carries, and the stored password its SELECT returned.
NoAuthReq == [kind |-> "none", cred |-> "none", newpw |-> "", curpw |-> "",
              key |-> "none", seen |-> NoPw]

\* gone: the caller has disconnected or given up waiting; ptype: the
\* payment_type of the order request ("none" when the body carries none);
\* price: the price / price_cents field of a PATCH body (0 when it has none)
NoReq == [kind |-> "none", cart |-> NoCart, oid |-> 0, pid |-> 0, abs |-> 0,
          delta |-> 0, form |-> "none", gone |-> FALSE, ptype |-> "none",
          price |-> 0]
NoResp == [code |-> 0, err |-> "none"]
Ok == [code |-> 200, err |-> "none"]

\* The pooled client of a handler: taken by pool.connect(), and the number of
\* times the handler has called client.release() on it.
NoConn == [taken |-> FALSE, rel |-> 0]

\* const client = await pool.connect()
Connect(c) == [c EXCEPT !.taken = TRUE]

\* Mutant: the handler returns without client.release().
Release_Skipped(c) == c

\* client.release()
Release(c) == [c EXCEPT !.rel = @ + 1]

Err(code, e) == [code |-> code, err |-> e]

(* ------------------------------ store --------------------------------- *)
\* Mutant: a statement sees the committed row only, not the transaction's
\* own earlier UPDATE.
Visible_Committed(s, p) == products[p].stock

\* The stock value a statement of slot s sees for product p: its own
\* uncommitted write if it has one, else the committed value.
Visible(s, p) ==
  IF tx[s].stock[p].w THEN tx[s].stock[p].v ELSE products[p].stock

\* A row lock can be taken by s when no other transaction holds it.
LockFree(s, p) == \A t \in Slots \ {s} : p \notin held[t]

\* orders(id) as the FOREIGN KEY check of an insert by s sees it
OrderVisible(s, oid) ==
  \/ \E o \in orders : o.id = oid
  \/ \E o \in tx[s].order : o.id = oid

\* The committed tables after COMMIT of slot s's transaction.
ApplyStock(s) ==
  [p \in ProdIds |->
     IF products[p].exists
     THEN [products[p] EXCEPT
             !.stock = IF tx[s].stock[p].w THEN tx[s].stock[p].v ELSE @,
             !.price = IF \E w \in tx[s].price : w.pid = p
                       THEN (CHOOSE w \in tx[s].price : w.pid = p).v ELSE @]
     ELSE products[p]]

\* The catalog at start: A (id 1) with stock 5, X (id 2) with stock 2 and price 1.50.
InitProducts ==
  [p \in ProdIds |->
     IF p = 1 THEN [exists |-> TRUE, stock |-> 5, price |-> 100]
     ELSE IF p = 2 THEN [exists |-> TRUE, stock |-> 2, price |-> 150]
     ELSE NoRow]

Init ==
  /\ variant \in Variants
  /\ products = InitProducts
  /\ orders = {}
  /\ items = <<>>
  /\ events = <<>>
  /\ payments = {}
  /\ initStock = [p \in ProdIds |-> InitProducts[p].stock]
  /\ nextId = 1
  /\ faults = 0
  /\ pc = [s \in Slots |-> "idle"]
  /\ req = [s \in Slots |-> NoReq]
  /\ idx = [s \in Slots |-> 0]
  /\ stockRead = [s \in Slots |-> 0]
  /\ perr = [s \in Slots |-> NoResp]
  /\ resp = [s \in Slots |-> NoResp]
  /\ held = [s \in Slots |-> {}]
  /\ tx = [s \in Slots |-> NoTx]
  /\ conn = [s \in Slots |-> NoConn]
  /\ admin = NoAdmin

(* ---------------------------- PlaceOrder ------------------------------ *)
\* The metadata an order request supplies.
OrderMeta == {"cart", "subtotal", "currency", "payment_ref", "customer"}

\* The payment types of a request: cash, or one settled through a provider.
PayTypes == {"cash", "cashapp"}

\* Status of an error the handler's catch block reports: 500 in api / seed,
\* 400 in index / p1.
ThrowCode == IF variant \in {"api", "seed"} THEN 500 ELSE 400

\* The handler leaves for its ROLLBACK with error e pending.
ToRollback(s, e) ==
  /\ pc' = [pc EXCEPT ![s] = "rollback"]
  /\ perr' = [perr EXCEPT ![s] = e]

\* Mutant: the Order header is written under one fixed identifier.
OrderRow_Fixed(oid, ptype) ==
  [id |-> 1, status |-> "created", meta |-> {"customer"}]

\* The Order header each variant inserts: api and seed compute the status from
\* payment_type and store cart, subtotal, currency, payment reference and
\* customer name (so does the /orders route of src/server.js); index and p1
\* write a fixed status and the customer only.
OrderRow(oid, ptype) ==
  [id |-> oid,
   status |-> IF variant = "index" THEN "created"
              ELSE IF variant = "p1" THEN "New"
              ELSE IF ptype = "cash" THEN "paid" ELSE "pending",
   meta |-> IF variant \in {"index", "p1"} THEN {"customer"} ELSE OrderMeta]

\* unit_price / price / price_cents of the inserted order line: api and seed
\* store what the cart entry carries (0 without one), index the price of the
\* locked product row, p1 the entry's own price when it has one and the
\* product row's otherwise.
UnitPrice(e) ==
  IF variant \in {"api", "seed"} THEN e.price
  ELSE IF variant = "p1" /\ e.price # 0 THEN e.price
  ELSE products[e.pid].price

\* The quantity the handler works with: Number(item.qty || item.quantity || 0)
\* in api and seed, Number(it.qty || it.quantity || 1) in index (a zero or
\* missing qty becomes 1), Number(it.qty) in p1.
QtyOf(e) ==
  IF variant = "index" /\ e.qty = 0 THEN 1 ELSE e.qty

\* A request arrives: the handler takes a client from the pool, validates the
\* cart where the variant does, issues BEGIN and (index, p1) inserts the Order
\* header first.
BeginOrder(s, cart, ptype) ==
  /\ pc[s] = "idle"
  /\ nextId <= MaxRequests
  /\ LET oid == nextId
         rejected == /\ variant \in {"seed", "p1"}
                     /\ (~cart.list \/ cart.entries = <<>>)
     IN /\ req' = [req EXCEPT ![s] =
                     [NoReq EXCEPT !.kind = "order", !.cart = cart, !.oid = oid,
                                   !.ptype = ptype]]
        /\ nextId' = nextId + 1
        /\ IF rejected
           THEN /\ resp' = [resp EXCEPT ![s] = Err(400, "InvalidCart")]
                /\ pc' = [pc EXCEPT ![s] = "done"]
                /\ UNCHANGED <<tx, idx>>
           ELSE /\ tx' = [tx EXCEPT ![s] =
                           [NoTx EXCEPT !.open = TRUE,
                                        !.order = IF variant \in {"index", "p1"}
                                                  THEN {OrderRow(oid, ptype)} ELSE {}]]
                /\ idx' = [idx EXCEPT ![s] = 1]
                /\ pc' = [pc EXCEPT ![s] = "loop"]
                /\ UNCHANGED resp
        /\ conn' = [conn EXCEPT ![s] =
                      IF ~rejected THEN Connect(@)
                      ELSE IF variant = "seed" THEN Release(Connect(@)) ELSE @]
  /\ UNCHANGED <<variant, admin, dbVars, initStock, faults, stockRead, perr, held>>

\* POST /orders with one of the carts of Carts.
StartOrder(s) == \E cart \in Carts : BeginOrder(s, cart, "none")

\* POST /orders with one of the carts of AnyCarts.
StartOrderAny(s) == \E cart \in AnyCarts : BeginOrder(s, cart, "none")

\* POST /orders with the empty cart or a one-entry cart, and a payment type.
PaidCarts == {c \in AnyCarts : \A i \in 1..Len(c.entries) :
                                c.entries[i].qty = 2 /\ c.entries[i].price = 0}
StartOrderPaid(s) ==
  \E cart \in PaidCarts, ptype \in PayTypes : BeginOrder(s, cart, ptype)

\* `for (const item of cart)` on a cart that is not iterable throws a TypeError
\* (api and index do not validate the cart).
CartNotIterable(s) ==
  /\ pc[s] = "loop"
  /\ req[s].kind = "order"
  /\ ~req[s].cart.list
  /\ ToRollback(s, Err(ThrowCode, "InvalidCart"))
  /\ UNCHANGED <<variant, admin, conn, dbVars, initStock, nextId, faults, req, idx, stockRead,
                 resp, held, tx>>

\* Mutant: a plain SELECT, which takes no row lock.
RowLock_NoLock(s, p) == held' = held

\* Mutant: the lock is recorded but the statement does not wait for its holder.
RowLock_NoWait(s, p) == held' = [held EXCEPT ![s] = @ \cup {p}]

\* SELECT ... FOR UPDATE takes the row lock of p, waiting while another
\* transaction holds it.
RowLock(s, p) ==
  /\ LockFree(s, p)
  /\ held' = [held EXCEPT ![s] = @ \cup {p}]

\* SELECT ... FROM products WHERE id = $1 FOR UPDATE for the current cart entry.
SelectForUpdate(s) ==
  /\ pc[s] = "loop"
  /\ req[s].kind = "order"
  /\ req[s].cart.list
  /\ idx[s] <= Len(req[s].cart.entries)
  /\ LET e == req[s].cart.entries[idx[s]]
     IN IF variant = "p1" /\ QtyOf(e) <= 0
        THEN /\ ToRollback(s, Err(400, "InvalidCart"))
             /\ UNCHANGED <<held, stockRead>>
        ELSE IF ~products[e.pid].exists
        THEN /\ ToRollback(s, Err(400, "ProductNotFound"))
             /\ UNCHANGED <<held, stockRead>>
        ELSE /\ RowLock(s, e.pid)
             /\ stockRead' = [stockRead EXCEPT ![s] = Visible(s, e.pid)]
             /\ pc' = [pc EXCEPT ![s] = "locked"]
             /\ UNCHANGED perr
  /\ UNCHANGED <<variant, admin, conn, dbVars, initStock, nextId, faults, req, idx, resp, tx>>

\* The stock check, then UPDATE products, INSERT inventory_events and INSERT
\* order_items for the current cart entry.  The store checks the foreign key
\* order_items.order_id -> orders(id) at the insert.
ProcessItem(s) ==
  /\ pc[s] = "locked"
  /\ req[s].kind = "order"
  /\ LET e == req[s].cart.entries[idx[s]]
         p == e.pid
         qty == QtyOf(e)
         oid == req[s].oid
         newStock == (IF variant = "index" THEN Visible(s, p) ELSE stockRead[s]) - qty
         ev == [product |-> p, delta |-> 0 - qty, reason |-> "sale", order |-> oid]
         line == [order |-> oid, product |-> p, qty |-> qty, unit_price |-> UnitPrice(e)]
         t1 == [tx[s] EXCEPT !.stock[p] = [w |-> TRUE, v |-> newStock],
                             !.events = Append(@, ev)]
     IN IF stockRead[s] < qty
        THEN /\ ToRollback(s, Err(400, "InsufficientStock"))
             /\ UNCHANGED <<tx, idx>>
        ELSE IF ~OrderVisible(s, oid)
        THEN /\ tx' = [tx EXCEPT ![s] = t1]
             /\ ToRollback(s, Err(ThrowCode, "Unknown"))
             /\ UNCHANGED idx
        ELSE /\ tx' = [tx EXCEPT ![s] = [t1 EXCEPT !.items = Append(@, line)]]
             /\ idx' = [idx EXCEPT ![s] = @ + 1]
             /\ pc' = [pc EXCEPT ![s] = "loop"]
             /\ UNCHANGED perr
  /\ stockRead' = [stockRead EXCEPT ![s] = 0]
  /\ UNCHANGED <<variant, admin, conn, dbVars, initStock, nextId, faults, req, resp, held>>

\* After the last cart entry: api and seed insert the Order header (api also
\* the payment row); p1 sends its success response inside the transaction
\* callback, before withTx issues COMMIT.
LoopExit(s) ==
  /\ pc[s] = "loop"
  /\ req[s].kind = "order"
  /\ req[s].cart.list
  /\ idx[s] > Len(req[s].cart.entries)
  /\ tx' = [tx EXCEPT ![s] =
              [@ EXCEPT !.order = IF variant \in {"api", "seed"}
                                  THEN {OrderRow(req[s].oid, req[s].ptype)} ELSE @,
                        !.pay = IF variant = "api" THEN {req[s].oid} ELSE @]]
  /\ resp' = [resp EXCEPT ![s] = IF variant = "p1" THEN Ok ELSE @]
  /\ pc' = [pc EXCEPT ![s] = "commit"]
  /\ UNCHANGED <<variant, admin, conn, dbVars, initStock, nextId, faults, req, idx, stockRead,
                 perr, held>>

(* ---------------------- COMMIT / ROLLBACK / errors --------------------- *)
\* COMMIT: the transaction's writes become the committed rows and its locks
\* are released.  api goes on to the payment-handle lookup; the others respond.
Commit(s) ==
  /\ pc[s] = "commit"
  /\ products' = ApplyStock(s)
  /\ orders' = orders \cup tx[s].order
  /\ items' = items \o tx[s].items
  /\ events' = events \o tx[s].events
  /\ payments' = payments \cup tx[s].pay
  /\ tx' = [tx EXCEPT ![s] = NoTx]
  /\ held' = [held EXCEPT ![s] = {}]
  /\ IF req[s].kind = "order" /\ variant = "api"
     THEN /\ pc' = [pc EXCEPT ![s] = "lookup"]
          /\ UNCHANGED <<resp, conn>>
     ELSE /\ pc' = [pc EXCEPT ![s] = "done"]
          /\ resp' = [resp EXCEPT ![s] = IF @ = NoResp THEN Ok ELSE @]
          /\ conn' = [conn EXCEPT ![s] = Release(@)]
  /\ idx' = [idx EXCEPT ![s] = 0]
  /\ UNCHANGED <<variant, admin, initStock, nextId, faults, req, stockRead, perr>>

\* COMMIT throws (connection lost, store failure): the store aborts the
\* transaction and the handler's catch block runs.
CommitFail(s) ==
  /\ pc[s] = "commit"
  /\ faults < MaxFaults
  /\ faults' = faults + 1
  /\ tx' = [tx EXCEPT ![s] = NoTx]
  /\ held' = [held EXCEPT ![s] = {}]
  /\ ToRollback(s, Err(ThrowCode, "StoreUnavailable"))
  /\ UNCHANGED <<variant, admin, conn, dbVars, initStock, nextId, req, idx, stockRead, resp>>

\* Mutant: the failure path ends the transaction with COMMIT.
Rollback_Commits(s) ==
  /\ pc[s] = "rollback"
  /\ products' = ApplyStock(s)
  /\ orders' = orders \cup tx[s].order
  /\ items' = items \o tx[s].items
  /\ events' = events \o tx[s].events
  /\ payments' = payments \cup tx[s].pay
  /\ tx' = [tx EXCEPT ![s] = NoTx]
  /\ held' = [held EXCEPT ![s] = {}]
  /\ resp' = [resp EXCEPT ![s] = IF @ = NoResp THEN perr[s] ELSE @]
  /\ perr' = [perr EXCEPT ![s] = NoResp]
  /\ pc' = [pc EXCEPT ![s] = "done"]
  /\ idx' = [idx EXCEPT ![s] = 0]
  /\ conn' = [conn EXCEPT ![s] = Release(@)]
  /\ UNCHANGED <<variant, admin, initStock, nextId, faults, req, stockRead>>

\* ROLLBACK, then the error response (unless a response was already sent)
\* and client.release().
Rollback(s) ==
  /\ pc[s] = "rollback"
  /\ tx' = [tx EXCEPT ![s] = NoTx]
  /\ held' = [held EXCEPT ![s] = {}]
  /\ resp' = [resp EXCEPT ![s] = IF @ = NoResp THEN perr[s] ELSE @]
  /\ perr' = [perr EXCEPT ![s] = NoResp]
  /\ pc' = [pc EXCEPT ![s] = "done"]
  /\ idx' = [idx EXCEPT ![s] = 0]
  /\ conn' = [conn EXCEPT ![s] = Release(@)]
  /\ UNCHANGED <<variant, admin, dbVars, initStock, nextId, faults, req, stockRead>>

\* The ROLLBACK statement throws because the connection is lost; the store
\* aborts the transaction of the lost connection.  api and seed wrap the
\* statement in try / catch and answer 500; withTx of p1 lets the new error
\* replace the first one and the route's catch answers 400; in index the
\* error leaves the catch block before res.status(400).send is reached, so
\* nothing is sent.  finally calls client.release() in all of them.
RollbackFail(s) ==
  /\ pc[s] = "rollback"
  /\ faults < MaxFaults
  /\ faults' = faults + 1
  /\ tx' = [tx EXCEPT ![s] = NoTx]
  /\ held' = [held EXCEPT ![s] = {}]
  /\ resp' = [resp EXCEPT ![s] =
                IF @ # NoResp \/ variant = "index" THEN @
                ELSE Err(ThrowCode, "StoreUnavailable")]
  /\ perr' = [perr EXCEPT ![s] = NoResp]
  /\ pc' = [pc EXCEPT ![s] = "done"]
  /\ idx' = [idx EXCEPT ![s] = 0]
  /\ conn' = [conn EXCEPT ![s] = Release(@)]
  /\ UNCHANGED <<variant, admin, dbVars, initStock, nextId, req, stockRead>>

\* api, after COMMIT: pool.query of the payment handles, then res.json.
Lookup(s) ==
  /\ pc[s] = "lookup"
  /\ resp' = [resp EXCEPT ![s] = Ok]
  /\ pc' = [pc EXCEPT ![s] = "done"]
  /\ conn' = [conn EXCEPT ![s] = Release(@)]
  /\ UNCHANGED <<variant, admin, dbVars, initStock, nextId, faults, req, idx, stockRead,
                 perr, held, tx>>

\* The lookup throws: the catch block issues ROLLBACK (no transaction is open
\* any more) and answers 500.
LookupFail(s) ==
  /\ pc[s] = "lookup"
  /\ faults < MaxFaults
  /\ faults' = faults + 1
  /\ resp' = [resp EXCEPT ![s] = Err(500, "StoreUnavailable")]
  /\ pc' = [pc EXCEPT ![s] = "done"]
  /\ conn' = [conn EXCEPT ![s] = Release(@)]
  /\ UNCHANGED <<variant, admin, dbVars, initStock, nextId, req, idx, stockRead, perr,
                 held, tx>>

\* s waits for a row lock of t while t waits for one of s.
WaitsFor(s, t) ==
  /\ pc[s] = "loop"
  /\ req[s].kind = "order"
  /\ req[s].cart.list
  /\ idx[s] <= Len(req[s].cart.entries)
  /\ req[s].cart.entries[idx[s]].pid \in held[t]

Deadlocked(s, t) == s # t /\ WaitsFor(s, t) /\ WaitsFor(t, s)

\* The store's deadlock detector aborts the waiting statement of s with an error.
DeadlockAbort(s) ==
  /\ \E t \in Slots : Deadlocked(s, t)
  /\ ToRollback(s, Err(ThrowCode, "StoreUnavailable"))
  /\ UNCHANGED <<variant, admin, conn, dbVars, initStock, nextId, faults, req, idx, stockRead,
                 resp, held, tx>>

\* The caller of a PlaceOrder call disconnects, or its timeout expires, before
\* the handler has issued COMMIT.  The handlers register no 'close' / 'aborted'
\* listener and set no request or statement timeout, so nothing but the
\* caller's side changes: the handler goes on as if the caller were there.
Disconnect(s) ==
  /\ req[s].kind = "order"
  /\ pc[s] \in {"loop", "locked", "commit"}
  /\ ~req[s].gone
  /\ req' = [req EXCEPT ![s].gone = TRUE]
  /\ UNCHANGED <<variant, admin, conn, dbVars, initStock, nextId, faults, pc, idx, stockRead,
                 perr, resp, held, tx>>

\* The slot is free for the next request.
Reset(s) ==
  /\ pc[s] = "done"
  /\ pc' = [pc EXCEPT ![s] = "idle"]
  /\ req' = [req EXCEPT ![s] = NoReq]
  /\ resp' = [resp EXCEPT ![s] = NoResp]
  /\ conn' = [conn EXCEPT ![s] = NoConn]
  /\ UNCHANGED <<variant, admin, dbVars, initStock, nextId, faults, idx, stockRead, perr,
                 held, tx>>

(* ----------------------- AdjustStock / products ----------------------- *)
\* PATCH /products/:id with a stock field arrives.  api, seed and index take an
\* absolute quantity (stock_qty); p1 takes a delta (stock_delta) or an absolute
\* quantity (stock).  All but index issue BEGIN on a pooled client.
BeginAdjust(s, r) ==
  /\ pc[s] = "idle"
  /\ nextId <= MaxRequests
  /\ nextId' = nextId + 1
  /\ req' = [req EXCEPT ![s] = r]
  /\ tx' = [tx EXCEPT ![s] = [NoTx EXCEPT !.open = (variant # "index")]]
  /\ pc' = [pc EXCEPT ![s] = "adjust"]
  /\ conn' = [conn EXCEPT ![s] = IF variant # "index" THEN Connect(@) ELSE @]
  /\ UNCHANGED <<variant, admin, dbVars, initStock, faults, idx, stockRead, perr, resp, held>>

\* PATCH body {stock_qty: a} (api, seed, index) or {stock: a} (p1)
AbsReq(p, a) == [NoReq EXCEPT !.kind = "adjust", !.pid = p, !.form = "abs", !.abs = a]

\* PATCH body {stock_delta: d} (p1)
DeltaReq(p, d) ==
  [NoReq EXCEPT !.kind = "adjust", !.pid = p, !.form = "delta", !.delta = d]

\* PATCH body {stock_qty: a, price: pr} (api, seed, index) or
\* {stock: a, price_cents: pr} (p1)
AbsPriceReq(p, a, pr) == [AbsReq(p, a) EXCEPT !.price = pr]

\* PATCH /products/:id with a quantity of AbsValues and a price of NewPrices.
StartAdjustPrice(s) ==
  \E p \in ProdIds, a \in AbsValues, pr \in NewPrices :
    BeginAdjust(s, AbsPriceReq(p, a, pr))

\* PATCH /products/:id with a quantity of AbsValues or a delta of Deltas.
StartAdjust(s) ==
  \E p \in ProdIds :
    \/ \E a \in AbsValues : BeginAdjust(s, AbsReq(p, a))
    \/ /\ variant = "p1"
       /\ \E d \in Deltas : BeginAdjust(s, DeltaReq(p, d))

\* PATCH /products/:id with a quantity of AnyAbs, which may be negative, or a
\* delta of Deltas.
StartAdjustAny(s) ==
  \E p \in ProdIds :
    \/ \E a \in AnyAbs : BeginAdjust(s, AbsReq(p, a))
    \/ /\ variant = "p1"
       /\ \E d \in Deltas : BeginAdjust(s, DeltaReq(p, d))

\* Mutant: the current stock is read with a plain SELECT, without the row lock.
AdjSelect_Plain(s) ==
  /\ pc[s] = "adjust"
  /\ \/ variant \in {"api", "seed"}
     \/ variant = "p1" /\ req[s].form = "delta"
  /\ IF ~products[req[s].pid].exists
     THEN /\ ToRollback(s, Err(IF variant = "p1" THEN 400 ELSE 404, "ProductNotFound"))
          /\ UNCHANGED stockRead
     ELSE /\ stockRead' = [stockRead EXCEPT ![s] = Visible(s, req[s].pid)]
          /\ pc' = [pc EXCEPT ![s] = "adjLocked"]
          /\ UNCHANGED perr
  /\ UNCHANGED <<variant, admin, conn, dbVars, initStock, nextId, faults, req, idx, resp, tx, held>>

\* api / seed (stock_qty) and p1 (stock_delta): SELECT stock FOR UPDATE.
AdjSelect(s) ==
  /\ pc[s] = "adjust"
  /\ \/ variant \in {"api", "seed"}
     \/ variant = "p1" /\ req[s].form = "delta"
  /\ IF ~products[req[s].pid].exists
     THEN /\ ToRollback(s, Err(IF variant = "p1" THEN 400 ELSE 404, "ProductNotFound"))
          /\ UNCHANGED <<held, stockRead>>
     ELSE /\ RowLock(s, req[s].pid)
          /\ stockRead' = [stockRead EXCEPT ![s] = Visible(s, req[s].pid)]
          /\ pc' = [pc EXCEPT ![s] = "adjLocked"]
          /\ UNCHANGED perr
  /\ UNCHANGED <<variant, admin, conn, dbVars, initStock, nextId, faults, req, idx, resp, tx>>

\* The other fields of a PATCH body that changes the stock: p1 runs its
\* general UPDATE (price_cents = $n) in the same callback after the stock
\* statements; api and seed return from the stock_qty branch and never reach
\* their general update.
PriceWrite(s) ==
  IF variant = "p1" /\ req[s].price # 0
  THEN {[pid |-> req[s].pid, v |-> req[s].price]} ELSE {}

\* api / seed: diff = newStock - oldStock, UPDATE, INSERT inventory_events(diff).
\* p1 (stock_delta): newStock = curr + stock_delta, rejected when negative,
\* UPDATE, INSERT inventory_events(stock_delta).
AdjWrite(s) ==
  /\ pc[s] = "adjLocked"
  /\ LET p == req[s].pid
         oldStock == stockRead[s]
         newStock == IF req[s].form = "delta" THEN oldStock + req[s].delta
                     ELSE req[s].abs
         diff == IF req[s].form = "delta" THEN req[s].delta ELSE newStock - oldStock
         ev == [product |-> p, delta |-> diff,
                reason |-> IF variant = "p1" THEN "manual" ELSE "manual_adjust",
                order |-> 0]
     IN IF variant = "p1" /\ newStock < 0
        THEN /\ ToRollback(s, Err(400, "InsufficientStock"))
             /\ UNCHANGED tx
        ELSE /\ tx' = [tx EXCEPT ![s] =
                         [@ EXCEPT !.stock[p] = [w |-> TRUE, v |-> newStock],
                                   !.events = Append(@, ev),
                                   !.price = PriceWrite(s)]]
             /\ pc' = [pc EXCEPT ![s] = "commit"]
             /\ UNCHANGED perr
  /\ stockRead' = [stockRead EXCEPT ![s] = 0]
  /\ UNCHANGED <<variant, admin, conn, dbVars, initStock, nextId, faults, req, idx, resp, held>>

\* p1 (stock): UPDATE products SET stock = $1 (the UPDATE takes the row lock),
\* then INSERT inventory_events(delta = stock, reason 'set'); the store checks
\* the foreign key inventory_events.product_id -> products(id) at the insert.
AdjSet(s) ==
  /\ pc[s] = "adjust"
  /\ variant = "p1"
  /\ req[s].form = "abs"
  /\ LET p == req[s].pid
         ev == [product |-> p, delta |-> req[s].abs, reason |-> "set", order |-> 0]
     IN IF ~products[p].exists
        THEN /\ ToRollback(s, Err(400, "Unknown"))
             /\ UNCHANGED <<held, tx>>
        ELSE /\ RowLock(s, p)
             /\ tx' = [tx EXCEPT ![s] =
                         [@ EXCEPT !.stock[p] = [w |-> TRUE, v |-> req[s].abs],
                                   !.events = Append(@, ev),
                                   !.price = PriceWrite(s)]]
             /\ pc' = [pc EXCEPT ![s] = "commit"]
             /\ UNCHANGED perr
  /\ UNCHANGED <<variant, admin, conn, dbVars, initStock, nextId, faults, req, idx, stockRead, resp>>

\* index: one autocommit UPDATE ... SET stock_qty = COALESCE($3, stock_qty) ...
\* RETURNING *; it waits for the row lock, writes no inventory event and
\* answers res.json(r.rows[0]) whether or not a row matched.
AdjUpdate(s) ==
  /\ pc[s] = "adjust"
  /\ variant = "index"
  /\ LockFree(s, req[s].pid)
  /\ products' = [products EXCEPT ![req[s].pid] =
                    IF @.exists
                    THEN [@ EXCEPT !.stock = req[s].abs,
                                   !.price = IF req[s].price # 0
                                             THEN req[s].price ELSE @]
                    ELSE @]
  /\ resp' = [resp EXCEPT ![s] = Ok]
  /\ pc' = [pc EXCEPT ![s] = "done"]
  /\ UNCHANGED <<variant, admin, conn, orders, items, events, payments, initStock, nextId, faults,
                 req, idx, stockRead, perr, held, tx>>

\* POST /products: INSERT INTO products (autocommit).  api, seed and index take
\* the id from the request and write no inventory event; p1 gets the id from
\* the SERIAL column and then inserts the 'initial' event in a second statement.
CreateProduct(s) ==
  /\ pc[s] = "idle"
  /\ nextId <= MaxRequests
  /\ nextId' = nextId + 1
  /\ \E p \in ProdIds, st \in NewStocks :
       /\ variant = "p1" => /\ ~products[p].exists
                            /\ \A q \in ProdIds : q < p => products[q].exists
       /\ req' = [req EXCEPT ![s] =
                    [NoReq EXCEPT !.kind = "create", !.pid = p, !.abs = st]]
       /\ IF products[p].exists
          THEN /\ resp' = [resp EXCEPT ![s] = Err(500, "Unknown")]
               /\ pc' = [pc EXCEPT ![s] = "done"]
               /\ UNCHANGED <<products, initStock>>
          ELSE /\ products' = [products EXCEPT ![p] =
                                 [exists |-> TRUE, stock |-> st, price |-> 100]]
               /\ initStock' = [initStock EXCEPT ![p] = st]
               /\ IF variant = "p1"
                  THEN /\ pc' = [pc EXCEPT ![s] = "createEvent"]
                       /\ UNCHANGED resp
                  ELSE /\ pc' = [pc EXCEPT ![s] = "done"]
                       /\ resp' = [resp EXCEPT ![s] = Ok]
  /\ UNCHANGED <<variant, admin, conn, orders, items, events, payments, faults, idx, stockRead,
                 perr, held, tx>>

\* p1: INSERT INTO inventory_events(product_id, delta, reason) VALUES (id, stock, 'initial').
CreateEvent(s) ==
  /\ pc[s] = "createEvent"
  /\ events' = Append(events, [product |-> req[s].pid, delta |-> req[s].abs,
                               reason |-> "initial", order |-> 0])
  /\ resp' = [resp EXCEPT ![s] = Ok]
  /\ pc' = [pc EXCEPT ![s] = "done"]
  /\ UNCHANGED <<variant, admin, conn, products, orders, items, payments, initStock, nextId,
                 faults, req, idx, stockRead, perr, held, tx>>

\* Mutant: inventory_events refers to products ON DELETE CASCADE, so the
\* product's ledger entries go with the row.
DeleteProduct_Cascade(s) ==
  /\ pc[s] = "idle"
  /\ variant = "seed"
  /\ nextId <= MaxRequests
  /\ nextId' = nextId + 1
  /\ \E p \in ProdIds :
       /\ LockFree(s, p)
       /\ req' = [req EXCEPT ![s] = [NoReq EXCEPT !.kind = "delete", !.pid = p]]
       /\ products' = [products EXCEPT ![p] = NoRow]
       /\ events' = SelectSeq(events, LAMBDA e : e.product # p)
  /\ resp' = [resp EXCEPT ![s] = Ok]
  /\ pc' = [pc EXCEPT ![s] = "done"]
  /\ UNCHANGED <<variant, admin, conn, orders, items, payments, initStock, faults, idx,
                 stockRead, perr, held, tx>>

\* seed: DELETE FROM products WHERE id = $1 (autocommit).  The statement
\* waits for the row lock; no table of seed.js refers to products by a foreign
\* key, so only the product row goes.  The answer is {ok: true} also when no
\* row matched.
DeleteProduct(s) ==
  /\ pc[s] = "idle"
  /\ variant = "seed"
  /\ nextId <= MaxRequests
  /\ nextId' = nextId + 1
  /\ \E p \in ProdIds :
       /\ LockFree(s, p)
       /\ req' = [req EXCEPT ![s] = [NoReq EXCEPT !.kind = "delete", !.pid = p]]
       /\ products' = [products EXCEPT ![p] = NoRow]
  /\ resp' = [resp EXCEPT ![s] = Ok]
  /\ pc' = [pc EXCEPT ![s] = "done"]
  /\ UNCHANGED <<variant, admin, conn, orders, items, events, payments, initStock, faults, idx,
                 stockRead, perr, held, tx>>

\* PATCH /products/:id with a price and no stock field: one UPDATE of the
\* product row, which waits for the row lock and leaves the stock as it is
\* (index: COALESCE(NULL, stock_qty)); no inventory event.
EditProduct(s) ==
  /\ pc[s] = "idle"
  /\ nextId <= MaxRequests
  /\ nextId' = nextId + 1
  /\ \E p \in ProdIds, pr \in NewPrices :
       /\ LockFree(s, p)
       /\ req' = [req EXCEPT ![s] = [NoReq EXCEPT !.kind = "edit", !.pid = p]]
       /\ products' = [products EXCEPT ![p] =
                         IF @.exists THEN [@ EXCEPT !.price = pr] ELSE @]
  /\ resp' = [resp EXCEPT ![s] = Ok]
  /\ pc' = [pc EXCEPT ![s] = "done"]
  /\ UNCHANGED <<variant, admin, conn, orders, items, events, payments, initStock, faults, idx,
                 stockRead, perr, held, tx>>

\* PATCH /orders/:id {status}: UPDATE orders SET status = $1 WHERE id = $2
\* (autocommit); the answer is 200 also when no row matched.
SetOrderStatus(s) ==
  /\ pc[s] = "idle"
  /\ nextId <= MaxRequests
  /\ nextId' = nextId + 1
  /\ \E oid \in 1..MaxRequests, st \in NewStatuses :
       /\ req' = [req EXCEPT ![s] = [NoReq EXCEPT !.kind = "status", !.oid = oid]]
       /\ orders' = {IF o.id = oid THEN [o EXCEPT !.status = st] ELSE o : o \in orders}
  /\ resp' = [resp EXCEPT ![s] = Ok]
  /\ pc' = [pc EXCEPT ![s] = "done"]
  /\ UNCHANGED <<variant, admin, conn, products, items, events, payments, initStock, faults, idx,
                 stockRead, perr, held, tx>>

Next ==
  \E s \in Slots :
    \/ StartOrder(s)
    \/ CartNotIterable(s)
    \/ SelectForUpdate(s)
    \/ ProcessItem(s)
    \/ LoopExit(s)
    \/ Commit(s)
    \/ CommitFail(s)
    \/ Rollback(s)
    \/ Lookup(s)
    \/ LookupFail(s)
    \/ DeadlockAbort(s)
    \/ StartAdjust(s)
    \/ AdjSelect(s)
    \/ AdjWrite(s)
    \/ AdjSet(s)
    \/ AdjUpdate(s)
    \/ CreateProduct(s)
    \/ CreateEvent(s)
    \/ Reset(s)

Spec == Init /\ [][Next]_vars

(* Every operation on products, orders and the ledger: orders of one entry, *)
(* stock adjustments that may ask for a negative quantity, product         *)
(* creation, price edits, deletion (seed) and order status changes.        *)
NextAdmin ==
  \E s \in Slots :
    \/ StartOrderAny(s)
    \/ SelectForUpdate(s)
    \/ ProcessItem(s)
    \/ LoopExit(s)
    \/ Commit(s)
    \/ Rollback(s)
    \/ Lookup(s)
    \/ StartAdjustAny(s)
    \/ AdjSelect(s)
    \/ AdjWrite(s)
    \/ AdjSet(s)
    \/ AdjUpdate(s)
    \/ CreateProduct(s)
    \/ CreateEvent(s)
    \/ DeleteProduct(s)
    \/ EditProduct(s)
    \/ SetOrderStatus(s)
    \/ Reset(s)

SpecAdmin == Init /\ [][NextAdmin]_vars

(* Orders alone, whose callers may disconnect or time out while the call   *)
(* is in flight.                                                          *)
NextCancel ==
  \E s \in Slots :
    \/ StartOrder(s)
    \/ CartNotIterable(s)
    \/ SelectForUpdate(s)
    \/ ProcessItem(s)
    \/ LoopExit(s)
    \/ Commit(s)
    \/ CommitFail(s)
    \/ Rollback(s)
    \/ Lookup(s)
    \/ LookupFail(s)
    \/ DeadlockAbort(s)
    \/ Disconnect(s)
    \/ Reset(s)

SpecCancel == Init /\ [][NextCancel]_vars

(* Orders alone, with carts whose entries may have a zero or negative qty   *)
(* and a price of their own; no store failure.                            *)
NextCarts ==
  \E s \in Slots :
    \/ StartOrderAny(s)
    \/ SelectForUpdate(s)
    \/ ProcessItem(s)
    \/ LoopExit(s)
    \/ Commit(s)
    \/ Rollback(s)
    \/ Lookup(s)
    \/ Reset(s)

SpecCarts == Init /\ [][NextCarts]_vars

\* Orders that carry a payment type.
NextPay ==
  \E s \in Slots :
    \/ StartOrderPaid(s)
    \/ SelectForUpdate(s)
    \/ ProcessItem(s)
    \/ LoopExit(s)
    \/ Commit(s)
    \/ Rollback(s)
    \/ Lookup(s)
    \/ Reset(s)

SpecPay == Init /\ [][NextPay]_vars

\* PATCH /products/:id bodies that change the stock and the price together.
NextPatch ==
  \E s \in Slots :
    \/ StartAdjustPrice(s)
    \/ AdjSelect(s)
    \/ AdjWrite(s)
    \/ AdjSet(s)
    \/ AdjUpdate(s)
    \/ Commit(s)
    \/ Rollback(s)
    \/ Reset(s)

SpecPatch == Init /\ [][NextPatch]_vars

\* Orders and stock adjustments whose COMMIT, ROLLBACK or lookup may fail.
NextFail ==
  \E s \in Slots :
    \/ StartOrderPaid(s)
    \/ SelectForUpdate(s)
    \/ ProcessItem(s)
    \/ LoopExit(s)
    \/ Commit(s)
    \/ CommitFail(s)
    \/ Rollback(s)
    \/ RollbackFail(s)
    \/ Lookup(s)
    \/ LookupFail(s)
    \/ StartAdjust(s)
    \/ AdjSelect(s)
    \/ AdjWrite(s)
    \/ AdjSet(s)
    \/ AdjUpdate(s)
    \/ Reset(s)

SpecFail == Init /\ [][NextFail]_vars

(* ------------- POST /orders of src/server.js (no stock) ---------------- *)
\* The server of src/server.js: no products, no order lines.
InitLegacy ==
  /\ variant = "legacy"
  /\ products = [p \in ProdIds |-> NoRow]
  /\ orders = {}
  /\ items = <<>>
  /\ events = <<>>
  /\ payments = {}
  /\ initStock = [p \in ProdIds |-> 0]
  /\ nextId = 1
  /\ faults = 0
  /\ pc = [s \in Slots |-> "idle"]
  /\ req = [s \in Slots |-> NoReq]
  /\ idx = [s \in Slots |-> 0]
  /\ stockRead = [s \in Slots |-> 0]
  /\ perr = [s \in Slots |-> NoResp]
  /\ resp = [s \in Slots |-> NoResp]
  /\ held = [s \in Slots |-> {}]
  /\ tx = [s \in Slots |-> NoTx]
  /\ conn = [s \in Slots |-> NoConn]
  /\ admin = NoAdmin

\* pool.query(INSERT INTO orders ...): a statement of its own on a pooled
\* connection, committed when it returns.
LegacyInsertOrder(s) ==
  /\ pc[s] = "idle"
  /\ nextId <= MaxRequests
  /\ nextId' = nextId + 1
  /\ \E ptype \in PayTypes :
       /\ req' = [req EXCEPT ![s] =
                    [NoReq EXCEPT !.kind = "order", !.oid = nextId, !.ptype = ptype]]
       /\ orders' = orders \cup {OrderRow(nextId, ptype)}
  /\ pc' = [pc EXCEPT ![s] = "legacyPay"]
  /\ UNCHANGED <<variant, admin, conn, products, items, events, payments, initStock, faults, idx,
                 stockRead, perr, resp, held, tx>>

\* pool.query(INSERT INTO payments ... meta {order_id: id}): a second
\* statement of its own.
LegacyInsertPayment(s) ==
  /\ pc[s] = "legacyPay"
  /\ payments' = payments \cup {req[s].oid}
  /\ pc' = [pc EXCEPT ![s] = "legacyLookup"]
  /\ UNCHANGED <<variant, admin, conn, products, orders, items, events, initStock, nextId, faults,
                 req, idx, stockRead, perr, resp, held, tx>>

\* One of the statements after the orders insert throws (store failure,
\* connection lost): the catch block answers 500 and undoes nothing.
LegacyFail(s) ==
  /\ pc[s] \in {"legacyPay", "legacyLookup"}
  /\ faults < MaxFaults
  /\ faults' = faults + 1
  /\ resp' = [resp EXCEPT ![s] = Err(500, "StoreUnavailable")]
  /\ pc' = [pc EXCEPT ![s] = "done"]
  /\ UNCHANGED <<variant, admin, conn, dbVars, initStock, nextId, req, idx, stockRead, perr,
                 held, tx>>

\* SELECT the payment handles from admin_settings and answer
\* {ok: true, order_id, payment_url}.
LegacyLookup(s) ==
  /\ pc[s] = "legacyLookup"
  /\ resp' = [resp EXCEPT ![s] = Ok]
  /\ pc' = [pc EXCEPT ![s] = "done"]
  /\ UNCHANGED <<variant, admin, conn, dbVars, initStock, nextId, faults, req, idx, stockRead,
                 perr, held, tx>>

NextLegacy ==
  \E s \in Slots :
    \/ LegacyInsertOrder(s)
    \/ LegacyInsertPayment(s)
    \/ LegacyFail(s)
    \/ LegacyLookup(s)
    \/ Reset(s)

SpecLegacy == InitLegacy /\ [][NextLegacy]_vars

(* --------------- admin password and settings routes -------------------- *)
\* The two generations of src/server.js: "server1" is its first part, "server2"
\* its updated part, whose routes src/api-server/server.js repeats.
AuthVariants == {"server1", "server2"}

\* Passwords a request may carry as the new password, and as current_password
\* ("" stands for none).
NewPws == {"short", "secret2"}
CurPws == {"", "secret1", "secret9"}

\* password.length
PwLen(p) == IF p = "" THEN 0 ELSE IF p = "short" THEN 5 ELSE 7

\* What a request presents: nothing, the x-admin-key header equal to the
\* configured ADMIN_API_KEY, or a cookie with a valid session token.
Creds == {"none", "key", "token"}

\* Keys of POST /settings bodies.
SettingKeys == {"admin_password", "venmo_handle"}

\* bcrypt.hash(password, 10)
Hash(p) == [set |-> TRUE, hashed |-> TRUE, of |-> p]

\* String(value)
Plain(v) == [set |-> TRUE, hashed |-> FALSE, of |-> v]

\* bcrypt.compare(current_password, value): false for a value that is no hash
Compare(p, stored) == stored.hashed /\ stored.of = p

\* requireAdminKey: everything passes while no ADMIN_API_KEY is configured.
KeyAllows(c) == ~admin.keySet \/ c = "key"

\* server2: the admin key matches, or the cookie holds a valid token.
SessionAllows(c) == (admin.keySet /\ c = "key") \/ c = "token"

\* The server starts with or without ADMIN_API_KEY, before or after the
\* first password was set.
InitAuth ==
  /\ variant \in AuthVariants
  /\ admin \in [keySet : BOOLEAN, pw : {NoPw, Hash("secret1")}]
  /\ products = [p \in ProdIds |-> NoRow]
  /\ orders = {}
  /\ items = <<>>
  /\ events = <<>>
  /\ payments = {}
  /\ initStock = [p \in ProdIds |-> 0]
  /\ nextId = 1
  /\ faults = 0
  /\ pc = [s \in Slots |-> "idle"]
  /\ req = [s \in Slots |-> NoReq]
  /\ idx = [s \in Slots |-> 0]
  /\ stockRead = [s \in Slots |-> 0]
  /\ perr = [s \in Slots |-> NoResp]
  /\ resp = [s \in Slots |-> NoResp]
  /\ held = [s \in Slots |-> {}]
  /\ tx = [s \in Slots |-> NoTx]
  /\ conn = [s \in Slots |-> NoConn]

\* POST /settings {key, value}: the authorisation check, then one upsert of
\* [key, String(value)]; the key is not restricted, so admin_password is
\* written like any other setting.
PostSettings(s) ==
  /\ pc[s] = "idle"
  /\ nextId <= MaxRequests
  /\ nextId' = nextId + 1
  /\ \E c \in Creds, k \in SettingKeys, v \in NewPws :
       /\ c = "key" => admin.keySet
       /\ req' = [req EXCEPT ![s] =
                    [NoAuthReq EXCEPT !.kind = "settings", !.cred = c, !.key = k,
                                  !.newpw = v]]
       /\ IF (variant = "server1" /\ ~KeyAllows(c))
             \/ (variant = "server2" /\ ~SessionAllows(c))
          THEN /\ resp' = [resp EXCEPT ![s] = Err(401, "Unauthorized")]
               /\ UNCHANGED admin
          ELSE /\ resp' = [resp EXCEPT ![s] = Ok]
               /\ admin' = [admin EXCEPT !.pw = IF k = "admin_password"
                                                THEN Plain(v) ELSE @]
  /\ pc' = [pc EXCEPT ![s] = "done"]
  /\ UNCHANGED <<variant, conn, dbVars, initStock, faults, idx, stockRead, perr,
                 held, tx>>

\* server1, POST /admin/password {password}: requireAdminKey, the length
\* check, then one upsert of the hash.
PostAdminPassword(s) ==
  /\ pc[s] = "idle"
  /\ variant = "server1"
  /\ nextId <= MaxRequests
  /\ nextId' = nextId + 1
  /\ \E c \in Creds, n \in NewPws, cur \in CurPws :
       /\ c = "key" => admin.keySet
       /\ req' = [req EXCEPT ![s] =
                    [NoAuthReq EXCEPT !.kind = "password", !.cred = c, !.newpw = n,
                                  !.curpw = cur]]
       /\ IF ~KeyAllows(c)
          THEN /\ resp' = [resp EXCEPT ![s] = Err(401, "Unauthorized")]
               /\ UNCHANGED admin
          ELSE IF PwLen(n) < 6
          THEN /\ resp' = [resp EXCEPT ![s] = Err(400, "PasswordTooShort")]
               /\ UNCHANGED admin
          ELSE /\ resp' = [resp EXCEPT ![s] = Ok]
               /\ admin' = [admin EXCEPT !.pw = Hash(n)]
  /\ pc' = [pc EXCEPT ![s] = "done"]
  /\ UNCHANGED <<variant, conn, dbVars, initStock, faults, idx, stockRead, perr,
                 held, tx>>

\* server2, POST /admin/password: the length check, then
\* SELECT value FROM admin_settings WHERE key = 'admin_password'.
PwSelect(s) ==
  /\ pc[s] = "idle"
  /\ variant = "server2"
  /\ nextId <= MaxRequests
  /\ nextId' = nextId + 1
  /\ \E c \in Creds, n \in NewPws, cur \in CurPws :
       /\ c = "key" => admin.keySet
       /\ req' = [req EXCEPT ![s] =
                    [NoAuthReq EXCEPT !.kind = "password", !.cred = c, !.newpw = n,
                                  !.curpw = cur, !.seen = admin.pw]]
       /\ IF PwLen(n) < 6
          THEN /\ resp' = [resp EXCEPT ![s] = Err(400, "PasswordTooShort")]
               /\ pc' = [pc EXCEPT ![s] = "done"]
          ELSE /\ pc' = [pc EXCEPT ![s] = "pwRead"]
               /\ UNCHANGED resp
  /\ UNCHANGED <<variant, conn, admin, dbVars, initStock, faults, idx, stockRead,
                 perr, held, tx>>

\* server2, after the SELECT: with no row, a plain INSERT of the hash (which
\* the primary key rejects when a row has appeared since); with a row, the
\* credentials or bcrypt.compare against the row that was read, then the
\* upsert of the new hash.
PwWrite(s) ==
  /\ pc[s] = "pwRead"
  /\ LET r == req[s]
     IN IF ~r.seen.set
        THEN IF admin.pw.set
             THEN /\ resp' = [resp EXCEPT ![s] = Err(500, "Unknown")]
                  /\ UNCHANGED admin
             ELSE /\ resp' = [resp EXCEPT ![s] = Ok]
                  /\ admin' = [admin EXCEPT !.pw = Hash(r.newpw)]
        ELSE IF SessionAllows(r.cred) \/ (r.curpw # "" /\ Compare(r.curpw, r.seen))
             THEN /\ resp' = [resp EXCEPT ![s] = Ok]
                  /\ admin' = [admin EXCEPT !.pw = Hash(r.newpw)]
             ELSE /\ resp' = [resp EXCEPT ![s] = Err(401, "Unauthorized")]
                  /\ UNCHANGED admin
  /\ pc' = [pc EXCEPT ![s] = "done"]
  /\ UNCHANGED <<variant, conn, dbVars, initStock, nextId, faults, req, idx,
                 stockRead, perr, held, tx>>

NextAuth ==
  \E s \in Slots :
    \/ PostSettings(s)
    \/ PostAdminPassword(s)
    \/ PwSelect(s)
    \/ PwWrite(s)
    \/ Reset(s)

SpecAuth == InitAuth /\ [][NextAuth]_vars

(* ------------------------------ claims -------------------------------- *)
RECURSIVE SumDelta(_, _)
\* Sum of the deltas of the inventory events of product p in the sequence evs,
\* the 'initial' events (which record the creation stock itself) left out.
SumDelta(evs, p) ==
  IF evs = <<>> THEN 0
  ELSE (IF Head(evs).product = p /\ Head(evs).reason # "initial"
        THEN Head(evs).delta ELSE 0) + SumDelta(Tail(evs), p)

RECURSIVE Demand(_, _)
\* Total quantity of product p a cart asks for.
Demand(es, p) ==
  IF es = <<>> THEN 0
  ELSE (IF Head(es).pid = p THEN Head(es).qty ELSE 0) + Demand(Tail(es), p)

\* No committed row belongs to the order identifier oid.
NoRowsOf(oid) ==
  /\ \A o \in orders : o.id # oid
  /\ \A i \in 1..Len(items) : items[i].order # oid
  /\ \A i \in 1..Len(events) : events[i].order # oid
  /\ oid \notin payments

Committed(oid) == \E o \in orders : o.id = oid

ValidationErrs == {"ProductNotFound", "InsufficientStock"}

IsOrder(s) == req[s].kind = "order"

Other(s) == CHOOSE t \in Slots : t # s

\* The product of the cart entry slot s is working on.
CurPid(s) == req[s].cart.entries[idx[s]].pid

\* C1: a PlaceOrder call that fails validation on a cart entry, also after
\* earlier entries were processed, shows no effect in the store: no step of
\* the call other than its COMMIT changes a committed table, and once it has
\* resolved with ProductNotFound / InsufficientStock no Order, OrderLine,
\* InventoryEvent or payment row of it exists and its transaction is closed.
C1_FailedValidationLeavesNoEffect ==
  [][\A s \in Slots :
       (IsOrder(s) /\ pc[s] # "commit" /\ pc'[s] # pc[s]) =>
          /\ UNCHANGED dbVars
          /\ (pc'[s] = "done" /\ resp'[s].err \in ValidationErrs) =>
                /\ NoRowsOf(req[s].oid)'
                /\ tx'[s] = NoTx
                /\ held'[s] = {}]_vars

\* C1 witness: index, cart [A x2, missing product]: the first entry was
\* processed, the second failed, the call has resolved and the store is as
\* it was.
C1_Witness ==
  \E s \in Slots :
    /\ variant = "index"
    /\ pc[s] = "done"
    /\ req[s].cart.entries = <<[pid |-> 1, qty |-> 2, price |-> 0], [pid |-> 3, qty |-> 2, price |-> 0]>>
    /\ resp[s] = Err(400, "ProductNotFound")
    /\ nextId = 2
    /\ products = InitProducts

\* C2: the stock check and the decrement of a product are done only under
\* that product's row lock, on the value read under the lock: a handler at its
\* check holds the lock and its value is the current one, every uncommitted
\* stock write is covered by the writer's lock, no two transactions hold the
\* same lock, and the value an order is about to commit is the committed stock
\* minus its own demand and is not negative (so two orders whose combined
\* demand exceeds the stock cannot both commit).
C2_CheckAndDecrementUnderLock ==
  \A s \in Slots :
    /\ pc[s] \in {"locked", "adjLocked"} =>
         LET p == IF IsOrder(s) THEN CurPid(s) ELSE req[s].pid
         IN p \in held[s] /\ stockRead[s] = Visible(s, p)
    /\ \A p \in ProdIds :
         tx[s].stock[p].w =>
           /\ p \in held[s]
           /\ IsOrder(s) =>
                /\ tx[s].stock[p].v = products[p].stock + SumDelta(tx[s].events, p)
                /\ tx[s].stock[p].v >= 0
    /\ \A t \in Slots \ {s} : held[s] \cap held[t] = {}

\* C2 witness: index, two orders of 3 A each against stock 5: one committed,
\* the other was refused, stock is 2.
C2_Witness ==
  /\ variant = "index"
  /\ \A s \in Slots :
       /\ pc[s] = "done"
       /\ req[s].cart.entries = <<[pid |-> 1, qty |-> 3, price |-> 0]>>
  /\ \E s \in Slots : resp[s] = Ok /\ resp[Other(s)] = Err(400, "InsufficientStock")
  /\ products[1].stock = 2

\* C3 (as claimed): stock_qty(A) = 5, two PlaceOrder calls each asking 3 of A
\* and nothing else going on (no store failure): exactly one commits, A's
\* stock becomes 2 and the other call reports InsufficientStock.
C3_ExactlyOneOfTwoSucceeds ==
  ( /\ faults = 0
    /\ nextId = 3
    /\ \A s \in Slots :
         /\ pc[s] = "done"
         /\ IsOrder(s)
         /\ req[s].cart = [list |-> TRUE, entries |-> <<[pid |-> 1, qty |-> 3, price |-> 0]>>] )
  => /\ \E s \in Slots :
          /\ resp[s] = Ok
          /\ Committed(req[s].oid)
          /\ resp[Other(s)].err = "InsufficientStock"
          /\ ~Committed(req[Other(s)].oid)
     /\ products[1].stock = 2

\* C4 (as claimed): ledger reconciliation: the committed stock of every
\* product equals its initial stock plus the sum of its InventoryEvent deltas.
C4_LedgerReconciles ==
  \A p \in ProdIds :
    products[p].exists => products[p].stock = initStock[p] + SumDelta(events, p)

\* C5 (as claimed): a PlaceOrder call that reports an error has left no
\* committed Order, OrderLine, InventoryEvent or payment row.
C5_ErrorMeansNoResidue ==
  \A s \in Slots :
    (IsOrder(s) /\ resp[s] # NoResp /\ resp[s].code # 200) => NoRowsOf(req[s].oid)

\* C6 (as claimed): the success response of PlaceOrder is sent only after its
\* transaction has committed.
C6_SuccessOnlyAfterCommit ==
  \A s \in Slots :
    (IsOrder(s) /\ resp[s].code = 200) => Committed(req[s].oid)

\* C7: PlaceOrder calls needing the same product row are serialized by the row
\* lock: a stock check (the SELECT ... FOR UPDATE returning) happens only when
\* no other open transaction holds the row or has an uncommitted write on it,
\* the value checked is the one the last resolution left (or the call's own
\* earlier write), and a lock is given up only when its transaction resolves.
C7_SerializedByRowLock ==
  [][\A s \in Slots :
       /\ (IsOrder(s) /\ pc[s] = "loop" /\ pc'[s] = "locked") =>
            /\ \A t \in Slots \ {s} :
                 CurPid(s) \notin held[t] /\ ~tx[t].stock[CurPid(s)].w
            /\ stockRead'[s] = Visible(s, CurPid(s))
            /\ CurPid(s) \in held'[s]
       /\ \A p \in held[s] : p \notin held'[s] => ~tx'[s].open]_vars

\* C7 witness: index, the second order of A is at its stock check after the
\* first one (2 of A) has committed, and checks the value that commit left.
C7_Witness ==
  \E s \in Slots :
    /\ variant = "index"
    /\ pc[s] = "locked"
    /\ CurPid(s) = 1
    /\ pc[Other(s)] = "done"
    /\ req[Other(s)].cart.entries = <<[pid |-> 1, qty |-> 2, price |-> 0]>>
    /\ resp[Other(s)] = Ok
    /\ stockRead[s] = 3

\* C8 (as claimed): two concurrent PlaceOrder calls never reach a state in
\* which each waits for a row lock the other holds.
C8_NoLockCycle ==
  \A s, t \in Slots : ~Deadlocked(s, t)

\* A cart every entry of which names a product of the initial catalog, with a
\* total demand per product within the initial stock.
ValidCart(cart) ==
  /\ cart.list
  /\ cart.entries # <<>>
  /\ \A i \in 1..Len(cart.entries) : InitProducts[cart.entries[i].pid].exists
  /\ \A p \in ProdIds : Demand(cart.entries, p) <= InitProducts[p].stock

\* C9 (as claimed): a PlaceOrder call with a valid cart and nothing else going
\* on commits and returns the order id; each product's stock is reduced by the
\* requested quantity and there is exactly one Order row, one OrderLine and one
\* 'sale' InventoryEvent (delta = -quantity, referencing the order) per entry.
C9_ValidCartCommits ==
  \A s \in Slots :
    (pc[s] = "done" /\ IsOrder(s) /\ nextId = 2 /\ faults = 0 /\ ValidCart(req[s].cart))
    => LET es == req[s].cart.entries
           oid == req[s].oid
       IN /\ resp[s] = Ok
          /\ Cardinality(orders) = 1
          /\ Committed(oid)
          /\ Len(items) = Len(es)
          /\ Len(events) = Len(es)
          /\ \A i \in 1..Len(es) :
               /\ i <= Len(items) =>
                    items[i] = [order |-> oid, product |-> es[i].pid, qty |-> es[i].qty,
                                unit_price |-> InitProducts[es[i].pid].price]
               /\ i <= Len(events) =>
                    events[i] = [product |-> es[i].pid, delta |-> 0 - es[i].qty,
                                 reason |-> "sale", order |-> oid]
          /\ \A p \in ProdIds :
               products[p].stock = InitProducts[p].stock - Demand(es, p)

\* C10 (as claimed): a PlaceOrder call whose cart is missing, not a list or
\* empty is rejected as InvalidCart and creates no row.
C10_EmptyCartRejected ==
  \A s \in Slots :
    (pc[s] = "done" /\ IsOrder(s) /\ (~req[s].cart.list \/ req[s].cart.entries = <<>>))
    => /\ resp[s].err = "InvalidCart"
       /\ NoRowsOf(req[s].oid)

\* C11 (as claimed): a PlaceOrder call whose cart has an entry with a qty that
\* is not a positive integer is rejected and commits nothing; so no order
\* raises a product's stock above what it was, every OrderLine has qty >= 1
\* and every 'sale' InventoryEvent has delta <= -1.
C11_NonPositiveQtyRejected ==
  /\ \A s \in Slots :
       (pc[s] = "done" /\ IsOrder(s)
          /\ \E i \in 1..Len(req[s].cart.entries) : req[s].cart.entries[i].qty <= 0)
       => /\ resp[s].code # 200
          /\ NoRowsOf(req[s].oid)
  /\ \A p \in ProdIds : products[p].stock <= InitProducts[p].stock
  /\ \A i \in 1..Len(items) : items[i].qty >= 1
  /\ \A i \in 1..Len(events) : events[i].reason = "sale" => events[i].delta <= -1

\* C12 (as claimed): the unit price stored in every OrderLine is the price of
\* the Product row the line refers to, as it was when the row was locked,
\* whatever price the cart entry carries (no price is edited in SpecCarts, so
\* that is the row's price throughout).
C12_UnitPriceIsProductPrice ==
  \A i \in 1..Len(items) : items[i].unit_price = products[items[i].product].price

RECURSIVE SumQty(_, _)
\* Total qty of the order lines of product p in the sequence its.
SumQty(its, p) ==
  IF its = <<>> THEN 0
  ELSE (IF Head(its).product = p THEN Head(its).qty ELSE 0) + SumQty(Tail(its), p)

\* C13: within one PlaceOrder call, the stock check of a cart entry sees the
\* decrements of the call's earlier entries for the same product (the value
\* checked is the committed stock minus the lines already written), and an
\* order commits only when, for every product, the sum of its OrderLine
\* quantities is at most the committed stock; the stock it commits is that
\* stock minus the sum and is not negative.
C13_RepeatedProductSeesOwnDecrements ==
  [][\A s \in Slots :
       IsOrder(s) =>
         /\ (pc[s] = "loop" /\ pc'[s] = "locked") =>
              stockRead'[s] = products[CurPid(s)].stock - SumQty(tx[s].items, CurPid(s))
         /\ (pc[s] = "commit" /\ pc'[s] \in {"done", "lookup"}) =>
              \A p \in ProdIds :
                /\ SumQty(tx[s].items, p) <= products[p].stock
                /\ products'[p].stock = products[p].stock - SumQty(tx[s].items, p)
                /\ products'[p].stock >= 0]_vars

\* C13 witness: index, the cart [A x2, A x2] against stock 5 has committed
\* two lines and left stock 1.
C13_Witness ==
  \E s \in Slots :
    /\ variant = "index"
    /\ pc[s] = "done"
    /\ resp[s] = Ok
    /\ req[s].cart.entries = <<[pid |-> 1, qty |-> 2, price |-> 0],
                               [pid |-> 1, qty |-> 2, price |-> 0]>>
    /\ Len(items) = 2
    /\ products[1].stock = 1

\* C14 (as claimed): in every reachable state the stock of every product is
\* a non-negative integer.
C14_StockNeverNegative ==
  \A p \in ProdIds : products[p].stock >= 0

\* The InventoryEvent an AdjustStock request r writes when it runs alone
\* against a product whose stock is cur.
AdjustEvent(r, cur) ==
  [product |-> r.pid,
   delta |-> IF r.form = "delta" THEN r.delta
             ELSE IF variant = "p1" THEN r.abs ELSE r.abs - cur,
   reason |-> IF variant \in {"api", "seed"} THEN "manual_adjust"
              ELSE IF r.form = "delta" THEN "manual" ELSE "set",
   order |-> 0]

\* C15: no update is lost between AdjustStock and PlaceOrder: whatever the
\* interleaving, each AdjustStock and each PlaceOrder takes effect at one step
\* (its COMMIT, or the single UPDATE of index), and the stock and the ledger
\* after that step are those the operation produces when run alone on the
\* committed stock and ledger just before it; so the final stock and ledger
\* are those of the serial execution in commit order.
C15_AdjustStockNotLost ==
  [][\A s \in Slots :
       /\ (req[s].kind = "adjust" /\ pc[s] = "commit" /\ pc'[s] = "done") =>
            LET p == req[s].pid
                cur == products[p].stock
            IN /\ products'[p].stock =
                    (IF req[s].form = "delta" THEN cur + req[s].delta ELSE req[s].abs)
               /\ events' = Append(events, AdjustEvent(req[s], cur))
               /\ \A q \in ProdIds \ {p} : products'[q] = products[q]
       /\ (req[s].kind = "adjust" /\ pc[s] = "adjust" /\ pc'[s] = "done") =>
            /\ products[req[s].pid].exists => products'[req[s].pid].stock = req[s].abs
            /\ \A q \in ProdIds \ {req[s].pid} : products'[q] = products[q]
            /\ events' = events
       /\ (IsOrder(s) /\ pc[s] = "commit" /\ pc'[s] \in {"done", "lookup"}) =>
            /\ \A p \in ProdIds :
                 products'[p].stock = products[p].stock + SumDelta(tx[s].events, p)
            /\ events' = events \o tx[s].events]_vars

\* C15 witness: p1, an AdjustStock of +1 on A holds A's row lock with its
\* write of 6 pending while a PlaceOrder of 2 A waits for that lock.
C15_Witness ==
  \E s \in Slots :
    /\ variant = "p1"
    /\ req[s].kind = "adjust"
    /\ req[s].form = "delta"
    /\ req[s].pid = 1
    /\ pc[s] = "commit"
    /\ tx[s].stock[1] = [w |-> TRUE, v |-> 6]
    /\ IsOrder(Other(s))
    /\ pc[Other(s)] = "loop"
    /\ req[Other(s)].cart.entries = <<[pid |-> 1, qty |-> 2, price |-> 0]>>

\* C16 (as claimed): an AdjustStock call on a product id that has no row
\* fails with ProductNotFound, in the absolute form and in the delta form, and
\* no InventoryEvent of that product exists afterwards.
C16_AdjustMissingProductFails ==
  \A s \in Slots :
    (req[s].kind = "adjust" /\ pc[s] = "done" /\ ~products[req[s].pid].exists)
    => /\ resp[s].err = "ProductNotFound"
       /\ \A i \in 1..Len(events) : events[i].product # req[s].pid

\* The committed order lines / inventory events of order oid, in order.
LinesOf(oid) == SelectSeq(items, LAMBDA l : l.order = oid)
EventsOf(oid) == SelectSeq(events, LAMBDA e : e.order = oid)

\* C17: two PlaceOrder calls with the same cart that both succeeded (no store
\* failure) have created two distinct Order rows under different identifiers,
\* each with its own OrderLines and 'sale' InventoryEvents, one per cart
\* entry, and, when they are the only requests so far, every product's stock
\* has gone down by twice the cart's demand.
C17_SameCartTwoOrders ==
  \A s, t \in Slots :
    ( /\ s # t
      /\ faults = 0
      /\ IsOrder(s) /\ IsOrder(t)
      /\ pc[s] = "done" /\ pc[t] = "done"
      /\ resp[s] = Ok /\ resp[t] = Ok
      /\ req[s].cart = req[t].cart )
    => LET es == req[s].cart.entries
       IN /\ req[s].oid # req[t].oid
          /\ Cardinality({o \in orders : o.id \in {req[s].oid, req[t].oid}}) = 2
          /\ \A u \in {s, t} :
               /\ Len(LinesOf(req[u].oid)) = Len(es)
               /\ Len(EventsOf(req[u].oid)) = Len(es)
               /\ \A i \in 1..Len(es) :
                    /\ i <= Len(LinesOf(req[u].oid)) =>
                         /\ LinesOf(req[u].oid)[i].product = es[i].pid
                         /\ LinesOf(req[u].oid)[i].qty = es[i].qty
                    /\ i <= Len(EventsOf(req[u].oid)) =>
                         EventsOf(req[u].oid)[i] =
                           [product |-> es[i].pid, delta |-> 0 - es[i].qty,
                            reason |-> "sale", order |-> req[u].oid]
          /\ nextId = 3 =>
               \A p \in ProdIds :
                 products[p].stock = InitProducts[p].stock - 2 * Demand(es, p)

\* C17 witness: index, the cart [A x2] placed twice: two Orders, two lines,
\* stock of A down from 5 to 1.
C17_Witness ==
  /\ variant = "index"
  /\ \A s \in Slots :
       /\ pc[s] = "done"
       /\ resp[s] = Ok
       /\ req[s].cart.entries = <<[pid |-> 1, qty |-> 2, price |-> 0]>>
  /\ Cardinality(orders) = 2
  /\ Len(items) = 2
  /\ products[1].stock = 1

\* C18 (as claimed): PlaceOrder answers InvalidCart, ProductNotFound and
\* InsufficientStock with status 400, and StoreUnavailable and Unknown with
\* status 500.
C18_StatusMatchesErrorClass ==
  \A s \in Slots :
    (IsOrder(s) /\ resp[s] # NoResp /\ resp[s].code # 200) =>
      /\ resp[s].err \in {"InvalidCart", "ProductNotFound", "InsufficientStock"}
           => resp[s].code = 400
      /\ resp[s].err \in {"StoreUnavailable", "Unknown"} => resp[s].code = 500

\* C19 (as claimed): a PlaceOrder call whose caller disconnected or timed
\* out before the commit is rolled back: no Order, OrderLine, InventoryEvent
\* or payment row of it is ever committed.
C19_CancelledCallCommitsNothing ==
  \A s \in Slots :
    (IsOrder(s) /\ req[s].gone) => NoRowsOf(req[s].oid)

\* C20: the InventoryEvent ledger is append-only: every step of every
\* operation (PlaceOrder, AdjustStock, product creation, price edit, product
\* deletion, order status change) leaves the committed entries as they are,
\* in place and unchanged, and at most adds entries after them.
C20_LedgerAppendOnly ==
  [][/\ Len(events') >= Len(events)
     /\ SubSeq(events', 1, Len(events)) = events]_vars

\* C20 witness: seed, a product whose stock adjustment is in the ledger has
\* been deleted, and its ledger entry is still there.
C20_Witness ==
  \E s \in Slots :
    /\ variant = "seed"
    /\ req[s].kind = "delete"
    /\ pc[s] = "done"
    /\ ~products[req[s].pid].exists
    /\ \E i \in 1..Len(events) :
         events[i].product = req[s].pid /\ events[i].reason = "manual_adjust"

\* C25 (as claimed): every AdjustStock that takes effect appends exactly one
\* InventoryEvent, for the adjusted product, whose delta is the stock after
\* the adjustment minus the stock before it, in the absolute form and in the
\* delta form.
C25_AdjustEventIsDifference ==
  [][\A s \in Slots :
       ( /\ req[s].kind = "adjust"
         /\ products[req[s].pid].exists
         /\ \/ pc[s] = "commit" /\ pc'[s] = "done"
            \/ pc[s] = "adjust" /\ pc'[s] = "done" ) =>
         /\ Len(events') = Len(events) + 1
         /\ events'[Len(events')].product = req[s].pid
         /\ events'[Len(events')].delta =
              products'[req[s].pid].stock - products[req[s].pid].stock]_vars

\* C28 (as claimed): when a PlaceOrder transaction inserts an OrderLine, the
\* Order row it refers to already exists for that transaction, so the foreign
\* key order_items.order_id -> orders(id) never rejects the line; and every
\* committed OrderLine refers to a committed Order.
C28_OrderRowBeforeLines ==
  /\ \A s \in Slots :
       (IsOrder(s) /\ pc[s] = "locked" /\ stockRead[s] >= QtyOf(req[s].cart.entries[idx[s]]))
       => OrderVisible(s, req[s].oid)
  /\ \A i \in 1..Len(items) : Committed(items[i].order)

\* C22 (as claimed): the Order header of a committed order has the status
\* "paid" exactly when the payment type of its request is cash and "created"
\* otherwise, and holds all the metadata the request supplied.
C22_StatusByPaymentType ==
  \A s \in Slots :
    (IsOrder(s) /\ pc[s] = "done" /\ resp[s] = Ok) =>
      \A o \in orders :
        o.id = req[s].oid =>
          /\ o.status = (IF req[s].ptype = "cash" THEN "paid" ELSE "created")
          /\ o.meta = OrderMeta

\* C27 (as claimed): a product PATCH that answers 200 has applied every field
\* its body carries: one that changes the stock together with the price
\* leaves the product with the requested stock and the requested price.
C27_PatchAppliesEveryField ==
  [][\A s \in Slots :
       ( /\ req[s].kind = "adjust"
         /\ req[s].form = "abs"
         /\ req[s].price # 0
         /\ products[req[s].pid].exists
         /\ pc[s] # "done"
         /\ pc'[s] = "done"
         /\ resp'[s] = Ok ) =>
         /\ products'[req[s].pid].stock = req[s].abs
         /\ products'[req[s].pid].price = req[s].price]_vars

\* C30 (as claimed): POST /orders records the order and its payment record
\* all-or-nothing: once the handler has answered, with success or with an
\* error, the Order row exists exactly when the payment row that refers to
\* it exists.
C30_OrderAndPaymentTogether ==
  \A s \in Slots :
    (IsOrder(s) /\ pc[s] = "done") =>
      (Committed(req[s].oid) <=> req[s].oid \in payments)

\* C26 (as claimed): a PlaceOrder or AdjustStock call whose handler has
\* returned has delivered a response to its caller and left no transaction
\* open, also when the ROLLBACK statement itself failed.
C26_FailureAlwaysAnswered ==
  \A s \in Slots :
    (req[s].kind \in {"order", "adjust"} /\ pc[s] = "done") =>
      /\ resp[s] # NoResp
      /\ ~tx[s].open

\* C29: a handler that has returned has released the client it took from the
\* pool exactly once (and none when it took none), no client is released
\* twice, and a released client has no open transaction.
C29_ReleasedExactlyOnce ==
  \A s \in Slots :
    /\ conn[s].rel <= 1
    /\ conn[s].rel = 1 => conn[s].taken /\ ~tx[s].open /\ held[s] = {}
    /\ pc[s] = "done" => conn[s].rel = (IF conn[s].taken THEN 1 ELSE 0)
    /\ (pc[s] \notin {"idle", "done"} /\ req[s].kind \in {"order", "adjust"}
        /\ ~(variant = "index" /\ req[s].kind = "adjust")) => conn[s].taken

\* C29 witness: an order for a product that does not exist, whose ROLLBACK
\* failed, has returned with its client released once, and a call that
\* committed has too.
C29_Witness ==
  \E s \in Slots :
    /\ variant = "api"
    /\ pc[s] = "done" /\ pc[Other(s)] = "done"
    /\ IsOrder(s)
    /\ req[s].cart.entries = <<[pid |-> 3, qty |-> 2, price |-> 0]>>
    /\ resp[s] = Err(500, "StoreUnavailable")
    /\ resp[Other(s)] = Ok
    /\ conn[s] = [taken |-> TRUE, rel |-> 1]
    /\ conn[Other(s)] = [taken |-> TRUE, rel |-> 1]

\* C23 (as claimed): POST /admin/password replaces a stored password only
\* when the request carries the admin key, a valid session token or the
\* current password, and a new password shorter than 6 characters never
\* changes what is stored.
C23_PasswordChangeNeedsCredentials ==
  [][\A s \in Slots :
       ( /\ req'[s].kind = "password"
         /\ pc[s] # "done"
         /\ pc'[s] = "done" ) =>
         /\ (admin.pw.set /\ admin'.pw # admin.pw) =>
              \/ req'[s].cred \in {"key", "token"}
              \/ Compare(req'[s].curpw, admin.pw)
         /\ PwLen(req'[s].newpw) < 6 => admin' = admin]_vars

\* C24 (as claimed): the value stored under admin_password is always a
\* bcrypt hash.
C24_StoredPasswordIsHash == admin.pw.set => admin.pw.hashed
====
